---- MODULE Spec2Model ----
(***************************************************************************)
(* Naive Bayes tumour-marker classifier (src/app.py): the model registry   *)
(* (CLASS_MARKERS, ALL_MARKERS, HEALTHY, LOG_PRIOR), the Gaussian helper   *)
(* logpdf, _logsumexp, rank_classes and predict_class.                     *)
(*                                                                         *)
(* Python floats are modelled in two number systems:                       *)
(*   - log-domain values (scores, lse, sums): fixed point with an integer  *)
(*     part n and three fraction limbs a, b, c of 14 bits each (42 bits,   *)
(*     2.3e-13), plus nan, -inf and +inf.  A double carries 53 significant *)
(*     bits, so a result of magnitude 2^11 or more is rounded, to nearest  *)
(*     and ties to even, to the spacing of the doubles of its magnitude;   *)
(*   - results of math.exp (probabilities): m * e^(-e) with the mantissa m *)
(*     in (1/e, 1], plus 0.0 (underflow), nan and inf.                     *)
(* math.log and math.exp are computed by series in integer arithmetic.     *)
(***************************************************************************)
EXTENDS Integers, Naturals, Sequences, FiniteSets, TLC

VARIABLES
    registry,   \* the module globals CLASS_MARKERS, ALL_MARKERS, HEALTHY, LOG_PRIOR
    pc,         \* where the program is: load, idle, score, predict, done
    op,         \* the function the caller invoked: rank_classes or predict_class
    patient,    \* the patient record passed to the call in progress
    scores,     \* rank_classes' local dict scores, in insertion order
    ranked,     \* predict_class' local ranked
    result,     \* what the last call returned or raised
    saved       \* an earlier completed call remembered by the caller

vars == <<registry, pc, op, patient, scores, ranked, result, saved>>

(***************************************************************************)
(* Python floats in the log domain                                         *)
(***************************************************************************)

\* the base of a fraction limb: 2^14
BASE == 128 * 128

\* the float n + a/BASE + b/BASE^2 + c/BASE^3, 0 <= a, b, c < BASE
Num(n, a, b, c) == [k |-> "num", n |-> n, a |-> a, b |-> b, c |-> c]
NaN  == [k |-> "nan", n |-> 0, a |-> 0, b |-> 0, c |-> 0]
NInf == [k |-> "ninf", n |-> 0, a |-> 0, b |-> 0, c |-> 0]
PInf == [k |-> "pinf", n |-> 0, a |-> 0, b |-> 0, c |-> 0]

\* float(i) for an integer i
IntToNum(i) == Num(i, 0, 0, 0)

Zero == IntToNum(0)
One  == IntToNum(1)

\* n + a/BASE + b/BASE^2 + c/BASE^3 for any integers a, b, c
Carry(n, a, b, c) ==
    LET b1 == b + (c \div BASE)
        a1 == a + (b1 \div BASE)
    IN  Num(n + (a1 \div BASE), a1 % BASE, b1 % BASE, c % BASE)

(***************************************************************************)
(* Exact fixed-point arithmetic on finite values                           *)
(***************************************************************************)

FxIsZero(x) == x.n = 0 /\ x.a = 0 /\ x.b = 0 /\ x.c = 0

FxAdd(x, y) == Carry(x.n + y.n, x.a + y.a, x.b + y.b, x.c + y.c)

FxSub(x, y) == Carry(x.n - y.n, x.a - y.a, x.b - y.b, x.c - y.c)

FxNeg(x) == Carry(-x.n, -x.a, -x.b, -x.c)

FxLess(x, y) ==
    \/ x.n < y.n
    \/ x.n = y.n /\ x.a < y.a
    \/ x.n = y.n /\ x.a = y.a /\ x.b < y.b
    \/ x.n = y.n /\ x.a = y.a /\ x.b = y.b /\ x.c < y.c

\* x * y for x, y >= 0 with integer parts below BASE, truncated
FxMul(x, y) ==
    LET c0 == x.n * y.n
        c1 == x.n * y.a + x.a * y.n
        c2 == x.n * y.b + x.a * y.a + x.b * y.n
        c3 == x.n * y.c + x.a * y.b + x.b * y.a + x.c * y.n
        c4 == x.a * y.c + x.b * y.b + x.c * y.a
        c5 == x.b * y.c + x.c * y.b
    IN  Carry(c0, c1, c2, c3 + ((c4 + (c5 \div BASE)) \div BASE))

\* x / d for an integer 0 < d < 2^17, truncated (long division over the limbs)
FxDivInt(x, d) ==
    LET a1 == (x.n % d) * BASE + x.a
        b1 == (a1 % d) * BASE + x.b
        c1 == (b1 % d) * BASE + x.c
    IN  Num(x.n \div d, a1 \div d, b1 \div d, c1 \div d)

RECURSIVE IntRatioBits(_, _, _, _)
\* <<q, r'>>: q followed by the next k bits of r/d, and what remains (0 <= r < d)
IntRatioBits(r, d, k, q) ==
    IF k = 0 THEN <<q, r>>
    ELSE IF 2 * r >= d THEN IntRatioBits(2 * r - d, d, k - 1, 2 * q + 1)
    ELSE IntRatioBits(2 * r, d, k - 1, 2 * q)

\* r/d for integers 0 <= r < d, truncated, and whether the division was exact
IntRatio(r, d) ==
    LET qa == IntRatioBits(r, d, 14, 0)
        qb == IntRatioBits(qa[2], d, 14, 0)
        qc == IntRatioBits(qb[2], d, 14, 0)
    IN  [q |-> Num(0, qa[1], qb[1], qc[1]), exact |-> qc[2] = 0]

RECURSIVE FxRatioBits(_, _, _, _)
\* the same for fixed-point 0 <= r < d
FxRatioBits(r, d, k, q) ==
    IF k = 0 THEN <<q, r>>
    ELSE LET t == FxAdd(r, r)
         IN  IF FxLess(t, d) THEN FxRatioBits(t, d, k - 1, 2 * q)
             ELSE FxRatioBits(FxSub(t, d), d, k - 1, 2 * q + 1)

\* r/d for fixed-point 0 <= r < d, truncated
FxRatio(r, d) ==
    LET qa == FxRatioBits(r, d, 14, 0)
        qb == FxRatioBits(qa[2], d, 14, 0)
        qc == FxRatioBits(qb[2], d, 14, 0)
    IN  Num(0, qa[1], qb[1], qc[1])

(***************************************************************************)
(* Rounding to a double                                                    *)
(***************************************************************************)

\* the integer part of |x|
Magnitude(x) == IF x.n >= 0 THEN x.n
                ELSE IF x.a = 0 /\ x.b = 0 /\ x.c = 0 THEN -x.n ELSE -x.n - 1

RECURSIVE Quantum(_)
\* the spacing of the doubles in [2^k, 2^(k+1)), 2^(k-52), in units of
\* BASE^-3 = 2^-42, for the k with 2^k <= mag < 2^(k+1); 1 below 2^11
Quantum(mag) == IF mag < 2 * 1024 THEN 1 ELSE 2 * Quantum(mag \div 2)

\* x rounded to the nearest double, ties to even; sticky tells that the
\* exact value lies above x by less than one unit
Round53(x, sticky) ==
    LET q    == Quantum(Magnitude(x))
        low  == x.b * BASE + x.c
        rem  == low % q
        odd  == (low \div q) % 2 = 1
        up   == 2 * rem > q \/ (2 * rem = q /\ (sticky \/ odd))
    IN  IF q = 1 THEN x
        ELSE Carry(x.n, x.a, 0, (low - rem) + (IF up THEN q ELSE 0))

\* a + b
FAdd(a, b) ==
    IF a.k = "nan" \/ b.k = "nan" THEN NaN
    ELSE IF a.k = "num" /\ b.k = "num" THEN Round53(FxAdd(a, b), FALSE)
    ELSE IF a.k = "num" THEN b
    ELSE IF b.k = "num" THEN a
    ELSE IF a.k = b.k THEN a
    ELSE NaN

\* -a
FNeg(a) ==
    CASE a.k = "nan"  -> NaN
      [] a.k = "ninf" -> PInf
      [] a.k = "pinf" -> NInf
      [] a.k = "num"  -> FxNeg(a)

\* a - b
FSub(a, b) == FAdd(a, FNeg(b))

\* a < b (False whenever a nan is involved)
FLess(a, b) ==
    IF a.k = "nan" \/ b.k = "nan" THEN FALSE
    ELSE IF a.k = "pinf" \/ b.k = "ninf" THEN FALSE
    ELSE IF a.k = "ninf" \/ b.k = "pinf" THEN TRUE
    ELSE FxLess(a, b)

\* -0.5 * a
FMulNegHalf(a) ==
    CASE a.k = "nan"  -> NaN
      [] a.k = "ninf" -> PInf
      [] a.k = "pinf" -> NInf
      [] a.k = "num"  -> FxNeg(FxDivInt(a, 2))

(***************************************************************************)
(* Series                                                                  *)
(***************************************************************************)

RECURSIVE AtanhSeries(_, _, _)
\* t/k + t*z2/(k+2) + t*z2^2/(k+4) + ... (t = z^k, z2 = z^2 <= 1/9)
AtanhSeries(t, z2, k) ==
    IF FxIsZero(t) THEN Zero
    ELSE FxAdd(FxDivInt(t, k), AtanhSeries(FxMul(t, z2), z2, k + 2))

\* 2 atanh(z) = ln((1 + z) / (1 - z)) for 0 <= z <= 1/3
TwoAtanh(z) == LET s == AtanhSeries(z, FxMul(z, z), 1) IN FxAdd(s, s)

\* ln 2 = 2 atanh(1/3)
LN2 == TwoAtanh(IntRatio(1, 3).q)

RECURSIVE Pow2Le(_, _, _)
\* <<e, p>> with p = d * 2^e the largest such p <= n, starting from <<e, p>>
Pow2Le(n, p, e) == IF 2 * p <= n THEN Pow2Le(n, 2 * p, e + 1) ELSE <<e, p>>

\* ln(i) for an integer i >= 1: i = 2^e * m, ln m = 2 atanh((m - 1)/(m + 1))
LnInt(i) ==
    LET ep == Pow2Le(i, 1, 0)
    IN  FxAdd(FxMul(IntToNum(ep[1]), LN2), TwoAtanh(IntRatio(i - ep[2], i + ep[2]).q))

RECURSIVE LnFx(_, _)
\* ln(x) + e * ln 2 for a fixed-point x > 0, by scaling x into [1, 2)
LnFx(x, e) ==
    IF x.n >= 2 THEN LnFx(FxDivInt(x, 2), e + 1)
    ELSE IF x.n < 1 THEN LnFx(FxAdd(x, x), e - 1)
    ELSE LET t == TwoAtanh(FxRatio(FxSub(x, One), FxAdd(x, One)))
         IN  IF e >= 0 THEN FxAdd(FxMul(IntToNum(e), LN2), t)
             ELSE FxSub(t, FxMul(IntToNum(-e), LN2))

RECURSIVE ExpSeries(_, _, _)
\* t - t*u/(k+1) + t*u^2/((k+1)(k+2)) - ...: the Taylor series of t * exp(-u)
ExpSeries(t, u, k) ==
    IF FxIsZero(t) THEN Zero
    ELSE FxSub(t, ExpSeries(FxDivInt(FxMul(t, u), k + 1), u, k + 1))

\* exp(-u) for 0 <= u <= 1
ExpNeg(u) == ExpSeries(One, u, 0)

\* 1/e
EInv == ExpNeg(One)

RECURSIVE AtanSeries(_, _, _)
\* t/k - t*z2/(k+2) + t*z2^2/(k+4) - ... (t = z^k, z2 = z^2)
AtanSeries(t, z2, k) ==
    IF FxIsZero(t) THEN Zero
    ELSE FxSub(FxDivInt(t, k), AtanSeries(FxMul(t, z2), z2, k + 2))

\* atan(1/i) for an integer i > 1
AtanInv(i) == LET z == IntRatio(1, i).q IN AtanSeries(z, FxMul(z, z), 1)

\* math.pi = 16 atan(1/5) - 4 atan(1/239)
math_pi == FxSub(FxMul(IntToNum(16), AtanInv(5)), FxMul(IntToNum(4), AtanInv(239)))

(***************************************************************************)
(* Results of math.exp                                                     *)
(***************************************************************************)

PNum(e, m) == [k |-> "num", e |-> e, m |-> m]
PZero      == [k |-> "zero", e |-> 0, m |-> Zero]
PNaN       == [k |-> "nan", e |-> 0, m |-> Zero]
PInfinity  == [k |-> "inf", e |-> 0, m |-> Zero]

\* a < b
PLess(a, b) ==
    IF a.k = "nan" \/ b.k = "nan" THEN FALSE
    ELSE IF a.k = "inf" \/ b.k = "zero" THEN FALSE
    ELSE IF a.k = "zero" \/ b.k = "inf" THEN TRUE
    ELSE a.e > b.e \/ (a.e = b.e /\ FxLess(a.m, b.m))

RECURSIVE ScaleDown(_, _)
\* m * e^(-e) for e >= 0
ScaleDown(m, e) == IF e = 0 \/ FxIsZero(m) THEN m ELSE ScaleDown(FxMul(m, EInv), e - 1)

\* a result of math.exp as a float: nan, inf, or its value m * e^(-e) (a
\* result above 1.0, e < 0, does not come up: every exponent passed is <= 0)
PToFloat(p) ==
    CASE p.k = "nan"  -> NaN
      [] p.k = "inf"  -> PInf
      [] p.k = "zero" -> Zero
      [] p.k = "num"  -> ScaleDown(p.m, p.e)

\* a result of a call that may raise: err is "none" or the exception's name
Ok(v)    == [err |-> "none", val |-> v]
Raise(e) == [err |-> e, val |-> NaN]

\* what follows the evaluation of v: the exception v raised propagates,
\* otherwise F goes on with v's value
Then(v, F(_)) == IF v.err # "none" THEN v ELSE F(v.val)

(***************************************************************************)
(* The registry as the source ships it                                     *)
(***************************************************************************)

Class(c, s, mu, var) == [cls |-> c, marker |-> s, mu |-> mu, var |-> var]

\* "Class": (signal marker, (mean, variance)), in insertion order
CLASS_MARKERS == <<
    Class("Ovarian_Early", "HE4", 151, 6348),
    Class("Ovarian_Late", "HE4", 570, 84840),
    Class("Liver_Overall", "AFP", 450, 2250000),
    Class("Liver_Stage_I", "AFP", 100, 7500),
    Class("Liver_Stage_II_III", "AFP", 600, 450000),
    Class("Liver_Stage_IV", "AFP", 6000, 15000000),
    Class("Pancreatic_Overall", "CA19-9", 1750, 3500000),
    Class("Pancreatic_Stage_I", "CA19-9", 140, 17500),
    Class("Pancreatic_Stage_II_III", "CA19-9", 950, 750000),
    Class("Pancreatic_Stage_IV", "CA19-9", 12500, 35000000) >>

ALL_MARKERS == <<"HE4", "AFP", "CA19-9">>

\* "Marker": (mean, variance) of the healthy population
HEALTHY ==
    ("HE4" :> [mu |-> 60, var |-> 15 * 15]) @@
    ("AFP" :> [mu |-> 5, var |-> 3 * 3]) @@
    ("CA19-9" :> [mu |-> 20, var |-> 10 * 10])

\* -math.log(len(classes))
LOG_PRIOR(classes) == FNeg(LnInt(Len(classes)))

Shipped ==
    [CLASS_MARKERS |-> CLASS_MARKERS, ALL_MARKERS |-> ALL_MARKERS,
     HEALTHY |-> HEALTHY, LOG_PRIOR |-> NaN]

(***************************************************************************)
(* math.exp and math.log                                                   *)
(***************************************************************************)

\* i + num/10^7
Decimal(i, num) == FxAdd(IntToNum(i), IntRatio(num, 10 * 1000 * 1000).q)

\* math.exp(a) is 0.0 for a below -745.1332191 (half the smallest double)
ExpUnderflow == Decimal(745, 1332191)

\* and raises OverflowError for a above 709.7827128 (the largest double)
ExpOverflow == Decimal(709, 7827128)

\* math.exp(a): e^a = e^(-n) * e^(-f) with -a = n + f, 0 <= f < 1
math_exp(a) ==
    CASE a.k = "nan"  -> Ok(PNaN)
      [] a.k = "ninf" -> Ok(PZero)
      [] a.k = "pinf" -> Ok(PInfinity)
      [] a.k = "num"  ->
            LET x == FxNeg(a)
            IN  IF FxLess(ExpUnderflow, x) THEN Ok(PZero)
                ELSE IF FxLess(ExpOverflow, a) THEN Raise("OverflowError")
                ELSE Ok(PNum(x.n, ExpNeg(Num(0, x.a, x.b, x.c))))

\* math.log(s)
math_log(s) ==
    CASE s.k = "nan"  -> Ok(NaN)
      [] s.k = "pinf" -> Ok(PInf)
      [] s.k = "ninf" -> Raise("ValueError")
      [] s.k = "num"  -> IF s.n < 0 \/ FxIsZero(s) THEN Raise("ValueError")
                         ELSE Ok(LnFx(s, 0))

\* math.log(2.0 * math.pi)
LOG_2PI == LnFx(FxAdd(math_pi, math_pi), 0)

\* the variances of the shipped tables
Variances ==
    {CLASS_MARKERS[i].var : i \in 1..Len(CLASS_MARKERS)} \cup
    {HEALTHY[m].var : m \in DOMAIN HEALTHY}

\* ln of each of them, evaluated once
LnVariance == [v \in Variances |-> LnInt(v)]

\* math.log(2.0 * math.pi * var) for an integer var: ln(2 pi) + ln(var)
LogTwoPiVar(var) ==
    IF var <= 0 THEN Raise("ValueError")
    ELSE Ok(FxAdd(LOG_2PI, IF var \in Variances THEN LnVariance[var] ELSE LnInt(var)))

(***************************************************************************)
(* The Gaussian helper                                                     *)
(***************************************************************************)

RECURSIVE BringDown(_, _, _, _, _)
\* long division continued over the low k bits of lo: <<quotient bits, rest>>
BringDown(r, d, lo, k, q) ==
    IF k = 0 THEN <<q, r>>
    ELSE LET t == 2 * r + ((lo \div (2 ^ (k - 1))) % 2)
         IN  IF t >= d THEN BringDown(t - d, d, lo, k - 1, 2 * q + 1)
             ELSE BringDown(t, d, lo, k - 1, 2 * q)

\* d ** 2 / var for integers 0 <= d < 2^20 and 0 < var < 2^26: the square is
\* hi * 2^20 + lo, exact in a double, and the quotient is rounded once
SquareOver(d, var) ==
    LET d1 == d \div 1024
        d0 == d % 1024
        t  == 2 * 1024 * d1 * d0 + d0 * d0
        hi == d1 * d1 + (t \div (1024 * 1024))
        lo == t % (1024 * 1024)
        qr == BringDown(hi % var, var, lo, 20, 0)
        fr == IntRatio(qr[2], var)
    IN  Round53(FxAdd(IntToNum((hi \div var) * 1024 * 1024 + qr[1]), fr.q), ~fr.exact)

\* ((x - mean) ** 2) / var for var > 0
Quadratic(x, mean, var) ==
    CASE x.k = "nan"  -> NaN
      [] x.k = "pinf" -> PInf
      [] x.k = "ninf" -> PInf
      [] x.k = "num"  -> SquareOver(IF x.n >= mean THEN x.n - mean ELSE mean - x.n, var)

\* logpdf without the normalising term log(2 pi var)
logpdfNoNormaliser(x, mean, var) ==
    Then(LogTwoPiVar(var), LAMBDA lg : Ok(FMulNegHalf(Quadratic(x, mean, var))))

\* log P(x | mean, var) = -0.5 * (log(2 pi var) + (x - mean)^2 / var);
\* math.log is evaluated first and raises ValueError for var <= 0
logpdf(x, mean, var) ==
    Then(LogTwoPiVar(var), LAMBDA lg : Ok(FMulNegHalf(FAdd(lg, Quadratic(x, mean, var)))))

(***************************************************************************)
(* Patient records                                                         *)
(***************************************************************************)

Absent     == [k |-> "absent", v |-> 0]   \* the key is not in the dict
NoneVal    == [k |-> "none", v |-> 0]     \* the key maps to None
NaNVal     == [k |-> "nan", v |-> 0]      \* float("nan")
InfVal     == [k |-> "inf", v |-> 0]      \* float("inf")
Reading(v) == [k |-> "num", v |-> v]      \* a whole-number level

\* float(r) for a reading r that is present and not None
ToFloat(r) ==
    CASE r.k = "num" -> IntToNum(r.v)
      [] r.k = "nan" -> NaN
      [] r.k = "inf" -> PInf

\* m in patient and patient[m] is not None
HasReading(p, m) == p[m].k # "absent" /\ p[m].k # "none"

(***************************************************************************)
(* rank_classes: the body of the loop over the classes                     *)
(***************************************************************************)

RECURSIVE HealthyTermsDefaulting(_, _, _, _)
\* the loop with the lenient lookup patient.get(m, h_mu): a marker without a
\* reading counts as exactly at its healthy mean
HealthyTermsDefaulting(c, p, i, logp) ==
    IF i > Len(registry.ALL_MARKERS) THEN Ok(logp)
    ELSE LET m == registry.ALL_MARKERS[i]
         IN  IF m = c.marker THEN HealthyTermsDefaulting(c, p, i + 1, logp)
             ELSE IF m \notin DOMAIN registry.HEALTHY THEN Raise("KeyError")
             ELSE LET h == registry.HEALTHY[m]
                  IN  Then(logpdf(IF HasReading(p, m) THEN ToFloat(p[m]) ELSE IntToNum(h.mu),
                                  h.mu, h.var),
                           LAMBDA t : HealthyTermsDefaulting(c, p, i + 1, FAdd(logp, t)))

RECURSIVE HealthyTerms(_, _, _, _)
\* the loop over ALL_MARKERS from index i on, logp being the sum so far
HealthyTerms(c, p, i, logp) ==
    IF i > Len(registry.ALL_MARKERS) THEN Ok(logp)
    ELSE LET m == registry.ALL_MARKERS[i]
         IN  IF m = c.marker THEN HealthyTerms(c, p, i + 1, logp)
             ELSE IF HasReading(p, m)
                  THEN IF m \notin DOMAIN registry.HEALTHY THEN Raise("KeyError")
                       ELSE LET h == registry.HEALTHY[m]
                            IN  Then(logpdf(ToFloat(p[m]), h.mu, h.var),
                                     LAMBDA t : HealthyTerms(c, p, i + 1, FAdd(logp, t)))
             ELSE HealthyTerms(c, p, i + 1, logp)

\* score with the lenient lookup patient.get(signal_marker, mu): a lacking
\* signal marker counts as exactly at the class mean
scoreDefaulting(c, p) ==
    Then(logpdf(IF HasReading(p, c.marker) THEN ToFloat(p[c.marker]) ELSE IntToNum(c.mu),
                c.mu, c.var),
         LAMBDA s : HealthyTerms(c, p, 1, FAdd(registry.LOG_PRIOR, s)))

\* the log-score of class c for patient p, or the exception the body raises
score(c, p) ==
    IF p[c.marker].k = "absent" THEN Raise("KeyError")
    ELSE IF p[c.marker].k = "none" THEN Raise("TypeError")
    ELSE Then(logpdf(ToFloat(p[c.marker]), c.mu, c.var),
              LAMBDA s : HealthyTerms(c, p, 1, FAdd(registry.LOG_PRIOR, s)))

(***************************************************************************)
(* _logsumexp and the normalisation                                        *)
(***************************************************************************)

RECURSIVE MaxFrom(_, _, _)
\* max(vals): the running maximum is replaced by an item that is > it
MaxFrom(vals, i, best) ==
    IF i > Len(vals) THEN best
    ELSE MaxFrom(vals, i + 1, IF FLess(best, vals[i]) THEN vals[i] ELSE best)

PyMax(vals) == MaxFrom(vals, 2, vals[1])

RECURSIVE SumExp(_, _, _, _)
\* sum(math.exp(v - m) for v in vals) from index i on
SumExp(vals, m, i, acc) ==
    IF i > Len(vals) THEN Ok(acc)
    ELSE Then(math_exp(FSub(vals[i], m)),
              LAMBDA t : SumExp(vals, m, i + 1, FAdd(acc, PToFloat(t))))

\* _logsumexp that returns the maximum alone, without log(sum(e^(v - m)))
_logsumexpMaxOnly(vals) ==
    IF Len(vals) = 0 THEN Raise("ValueError") ELSE Ok(PyMax(vals))

\* m + math.log(s)
PlusLog(m, s) == Then(math_log(s), LAMBDA lg : Ok(FAdd(m, lg)))

\* log(sum(e^v for v in vals)) = m + log(sum(e^(v - m))) with m = max(vals)
_logsumexp(vals) ==
    IF Len(vals) = 0 THEN Raise("ValueError")
    ELSE LET m == PyMax(vals)
         IN  Then(SumExp(vals, m, 1, Zero), LAMBDA s : PlusLog(m, s))

RECURSIVE InsertDesc(_, _, _)
\* x put into out (sorted descending by probability from index i on) before
\* the first entry whose probability is < x's
InsertDesc(out, x, i) ==
    IF i > Len(out) THEN Append(out, x)
    ELSE IF PLess(out[i].prob, x.prob)
         THEN SubSeq(out, 1, i - 1) \o <<x>> \o SubSeq(out, i, Len(out))
    ELSE InsertDesc(out, x, i + 1)

RECURSIVE SortedDesc(_, _, _)
\* sorted(items, key=probability, reverse=True): stable, equal keys keep
\* their order
SortedDesc(items, i, out) ==
    IF i > Len(items) THEN out
    ELSE SortedDesc(items, i + 1, InsertDesc(out, items[i], 1))

RECURSIVE Posteriors(_, _, _, _)
\* ((c, math.exp(s - lse)) for c, s in scores.items()) from index i on
Posteriors(sc, lse, i, out) ==
    IF i > Len(sc) THEN Ok(out)
    ELSE Then(math_exp(FSub(sc[i].score, lse)),
              LAMBDA t : Posteriors(sc, lse, i + 1,
                                    Append(out, [cls |-> sc[i].cls, prob |-> t])))

\* scores.values()
Values(sc) == [i \in 1..Len(sc) |-> sc[i].score]

\* lines 90-96 of rank_classes: the ranking of the scored classes
Normalize(sc) ==
    Then(_logsumexp(Values(sc)),
         LAMBDA lse : Then(Posteriors(sc, lse, 1, <<>>),
                           LAMBDA ps : Ok(SortedDesc(ps, 1, <<>>))))

RECURSIVE ScoreAll(_, _, _)
\* the loop over CLASS_MARKERS from index i on
ScoreAll(p, i, sc) ==
    IF i > Len(registry.CLASS_MARKERS) THEN Ok(sc)
    ELSE LET c == registry.CLASS_MARKERS[i]
         IN  Then(score(c, p),
                  LAMBDA s : ScoreAll(p, i + 1, Append(sc, [cls |-> c.cls, score |-> s])))

\* rank_classes(patient) as one function: the ranking, or the exception
rank_classes(p) == Then(ScoreAll(p, 1, <<>>), LAMBDA sc : Normalize(sc))

\* predict_class(patient): (ranked[0][0], ranked)
predict_class(p) ==
    Then(rank_classes(p),
         LAMBDA r : IF Len(r) = 0 THEN Raise("IndexError")
                    ELSE Ok([pred |-> r[1].cls, ranked |-> r]))

(***************************************************************************)
(* The callers' inputs                                                     *)
(***************************************************************************)

\* how many of the example patients' readings are tried for each marker
NumExamples == 2

Patient(he4, afp, ca) == ("HE4" :> he4) @@ ("AFP" :> afp) @@ ("CA19-9" :> ca)

\* the example patients: Alice, Charlie, Drew, Evan, Fiona, Grace
patients == <<
    Patient(180, 6, 22),
    Patient(65, 900, 28),
    Patient(70, 8, 6000),
    Patient(60, 80, 30),
    Patient(60, 5, 12500),
    Patient(70, 6000, 24) >>

\* the classes' means and the healthy mean of marker m
Means(m) ==
    {HEALTHY[m].mu} \cup
    {CLASS_MARKERS[i].mu : i \in {j \in 1..Len(CLASS_MARKERS) : CLASS_MARKERS[j].marker = m}}

\* levels far above every class mean, at which Ovarian_Late and
\* Pancreatic_Stage_IV score within one unit of each other
Extreme(m) ==
    CASE m = "HE4"    -> {214552}
      [] m = "CA19-9" -> {142826}
      [] OTHER        -> {}

\* the levels tried for marker m
Levels(m) == Means(m) \cup {patients[i][m] : i \in 1..NumExamples} \cup Extreme(m)

\* what a record may hold for marker m
Readings(m) ==
    {Absent, NoneVal, NaNVal, InfVal} \cup {Reading(v) : v \in Levels(m)}

Markers == {ALL_MARKERS[i] : i \in 1..Len(ALL_MARKERS)}

\* the patient records the callers pass
Patients == {p \in [Markers -> UNION {Readings(m) : m \in Markers}] :
                \A m \in Markers : p[m] \in Readings(m)}

NoResult == [kind |-> "none", error |-> "none", pred |-> "none", ranked |-> <<>>]
Raised(e) == [kind |-> "raised", error |-> e, pred |-> "none", ranked |-> <<>>]
Returned(c, r) == [kind |-> "returned", error |-> "none", pred |-> c, ranked |-> r]

NothingSaved == [patient |-> Patient(Absent, Absent, Absent), op |-> "none", result |-> NoResult]

(***************************************************************************)
(* The program                                                             *)
(***************************************************************************)

Init ==
    /\ registry = Shipped
    /\ pc = "load"
    /\ op = "none"
    /\ patient = Patient(Absent, Absent, Absent)
    /\ scores = <<>>
    /\ ranked = <<>>
    /\ result = NoResult
    /\ saved = NothingSaved

\* the module is loaded: the tables are bound and LOG_PRIOR is computed
Load ==
    /\ pc = "load"
    /\ registry' = [registry EXCEPT !.LOG_PRIOR = LOG_PRIOR(registry.CLASS_MARKERS)]
    /\ pc' = "idle"
    /\ UNCHANGED <<op, patient, scores, ranked, result, saved>>

\* a caller passes one of the records of P to rank_classes or predict_class
Call(P) ==
    /\ pc = "idle"
    /\ \E p \in P, o \in {"rank_classes", "predict_class"} :
          /\ patient' = p
          /\ op' = o
    /\ scores' = <<>>
    /\ ranked' = <<>>
    /\ result' = NoResult
    /\ pc' = "score"
    /\ UNCHANGED <<registry, saved>>

\* scores[cls] = logp for class c, or the exception s raised leaves the call
Store(c, s) ==
    IF s.err # "none"
    THEN /\ result' = Raised(s.err)
         /\ pc' = "done"
         /\ UNCHANGED scores
    ELSE /\ scores' = Append(scores, [cls |-> c.cls, score |-> s.val])
         /\ UNCHANGED <<result, pc>>

\* ScoreClass that fills the record in place, patient.setdefault(m, h_mu), for
\* the markers it has no key for
ScoreClassFillingDefaults ==
    /\ pc = "score"
    /\ Len(scores) < Len(registry.CLASS_MARKERS)
    /\ LET c == registry.CLASS_MARKERS[Len(scores) + 1]
       IN  /\ Store(c, score(c, patient))
           /\ patient' = [m \in Markers |->
                            IF patient[m].k = "absent" /\ m # c.marker
                            THEN Reading(HEALTHY[m].mu) ELSE patient[m]]
    /\ UNCHANGED <<registry, op, ranked, saved>>

\* one iteration of the loop over CLASS_MARKERS: scores[cls] = logp
ScoreClass ==
    /\ pc = "score"
    /\ Len(scores) < Len(registry.CLASS_MARKERS)
    /\ LET c == registry.CLASS_MARKERS[Len(scores) + 1]
       IN  Store(c, score(c, patient))
    /\ UNCHANGED <<registry, op, patient, ranked, saved>>

\* r with its entries i and i + 1 exchanged
Swap(r, i) ==
    [j \in 1..Len(r) |-> IF j = i THEN r[i + 1] ELSE IF j = i + 1 THEN r[i] ELSE r[j]]

\* rank_classes returns the ranking r, to its caller or to predict_class
Deliver(r) ==
    IF op = "rank_classes"
    THEN /\ result' = Returned("none", r)
         /\ pc' = "done"
         /\ UNCHANGED ranked
    ELSE /\ ranked' = r
         /\ pc' = "predict"
         /\ UNCHANGED result

\* Finish with a sort that is not stable: two adjacent entries of equal
\* probability may come out in either order
FinishUnstable(r) ==
    IF r.err # "none"
    THEN /\ result' = Raised(r.err)
         /\ pc' = "done"
         /\ UNCHANGED ranked
    ELSE \E i \in 0..(Len(r.val) - 1) :
            Deliver(IF i > 0 /\ r.val[i].prob = r.val[i + 1].prob
                    THEN Swap(r.val, i) ELSE r.val)

\* Rank whose sorted() is not stable
RankUnstable ==
    /\ pc = "score"
    /\ Len(scores) = Len(registry.CLASS_MARKERS)
    /\ FinishUnstable(Normalize(scores))
    /\ UNCHANGED <<registry, op, patient, scores, saved>>

\* rank_classes ends with r: the ranking, or the exception raised on the way
Finish(r) ==
    IF r.err # "none"
    THEN /\ result' = Raised(r.err)
         /\ pc' = "done"
         /\ UNCHANGED ranked
    ELSE Deliver(r.val)

\* the loop is over: the scores are normalised and sorted, rank_classes returns
Rank ==
    /\ pc = "score"
    /\ Len(scores) = Len(registry.CLASS_MARKERS)
    /\ Finish(Normalize(scores))
    /\ UNCHANGED <<registry, op, patient, scores, saved>>

\* predict_class that returns the five entries the report prints, ranked[:5]
PredictReturnTopFive ==
    /\ pc = "predict"
    /\ result' = IF Len(ranked) = 0 THEN Raised("IndexError")
                 ELSE Returned(ranked[1].cls, SubSeq(ranked, 1, 5))
    /\ pc' = "done"
    /\ UNCHANGED <<registry, op, patient, scores, ranked, saved>>

\* predict_class returns ranked[0][0], ranked
PredictReturn ==
    /\ pc = "predict"
    /\ result' = IF Len(ranked) = 0 THEN Raised("IndexError")
                 ELSE Returned(ranked[1].cls, ranked)
    /\ pc' = "done"
    /\ UNCHANGED <<registry, op, patient, scores, ranked, saved>>

\* the caller takes the result; the call's frame is gone
Return ==
    /\ pc = "done"
    /\ pc' = "idle"
    /\ op' = "none"
    /\ patient' = Patient(Absent, Absent, Absent)
    /\ scores' = <<>>
    /\ ranked' = <<>>
    /\ result' = NoResult
    /\ UNCHANGED <<registry, saved>>

Next ==
    \/ Load
    \/ Call(Patients)
    \/ ScoreClass
    \/ Rank
    \/ PredictReturn
    \/ Return

Spec == Init /\ [][Next]_vars

(***************************************************************************)
(* Other configurations of the tables, and a caller that remembers         *)
(***************************************************************************)

\* a registry is valid when every variance is strictly positive and every
\* signal marker has a healthy baseline
ValidRegistry(reg) ==
    /\ \A i \in 1..Len(reg.CLASS_MARKERS) :
          /\ reg.CLASS_MARKERS[i].var > 0
          /\ reg.CLASS_MARKERS[i].marker \in DOMAIN reg.HEALTHY
    /\ \A m \in DOMAIN reg.HEALTHY : reg.HEALTHY[m].var > 0

\* the tables as shipped, and the tables with one entry edited
Configurations ==
    { Shipped,
      [Shipped EXCEPT !.HEALTHY["AFP"].var = 0],
      [Shipped EXCEPT !.CLASS_MARKERS[4].var = -7500],
      [Shipped EXCEPT !.HEALTHY = [m \in {"HE4", "AFP"} |-> HEALTHY[m]]] }

\* the largest class mean of marker m
TopMean(m) == CHOOSE v \in Means(m) : \A w \in Means(m) : w <= v

\* a few records: each marker absent, nan, at its healthy mean or at its
\* largest class mean
FewPatients ==
    {p \in Patients : \A m \in Markers :
        p[m] \in {Absent, NaNVal, Reading(HEALTHY[m].mu), Reading(TopMean(m))}}

InitConfig ==
    /\ registry \in Configurations
    /\ pc = "load"
    /\ op = "none"
    /\ patient = Patient(Absent, Absent, Absent)
    /\ scores = <<>>
    /\ ranked = <<>>
    /\ result = NoResult
    /\ saved = NothingSaved

NextConfig ==
    \/ Load
    \/ Call(FewPatients)
    \/ ScoreClass
    \/ Rank
    \/ PredictReturn
    \/ Return

\* the program with any of the configurations
SpecConfig == InitConfig /\ [][NextConfig]_vars

\* the caller takes the result and remembers the call
Remember ==
    /\ pc = "done"
    /\ saved' = [patient |-> patient, op |-> op, result |-> result]
    /\ pc' = "idle"
    /\ op' = "none"
    /\ patient' = Patient(Absent, Absent, Absent)
    /\ scores' = <<>>
    /\ ranked' = <<>>
    /\ result' = NoResult
    /\ UNCHANGED registry

NextDet ==
    \/ Load
    \/ Call(FewPatients)
    \/ ScoreClass
    \/ Rank
    \/ PredictReturn
    \/ Return
    \/ Remember

\* the program with a caller that compares a call with an earlier one
SpecDet == Init /\ [][NextDet]_vars

(***************************************************************************)
(* Properties                                                              *)
(***************************************************************************)

ClassIndex == 1..Len(CLASS_MARKERS)

\* the record has no reading for marker m: no key, or None
LacksReading(p, m) == ~HasReading(p, m)

\* the record lacks the signal marker of at least one class
LacksSignal(p) == \E i \in ClassIndex : LacksReading(p, CLASS_MARKERS[i].marker)

\* the first class, in the order of the table, whose signal marker is lacking
FirstLacking(p) ==
    CHOOSE i \in ClassIndex :
        /\ LacksReading(p, CLASS_MARKERS[i].marker)
        /\ \A j \in 1..(i - 1) : HasReading(p, CLASS_MARKERS[j].marker)

\* the exception patient[signal_marker] / float(None) raises there
LackingError(p) ==
    IF p[CLASS_MARKERS[FirstLacking(p)].marker].k = "absent" THEN "KeyError"
    ELSE "TypeError"

\* the class a scores entry belongs to
ClassOf(cls) == CLASS_MARKERS[CHOOSE i \in ClassIndex : CLASS_MARKERS[i].cls = cls]

PGreaterEq(a, b) == a.k # "nan" /\ b.k # "nan" /\ ~PLess(a, b)

\* C2: whenever rank_classes returns, the ranking is sorted non-increasing by
\* probability: each entry's probability is >= the next entry's.
C2_SortedNonIncreasing ==
    (pc = "done" /\ result.kind = "returned") =>
        \A i \in 1..(Len(result.ranked) - 1) :
            PGreaterEq(result.ranked[i].prob, result.ranked[i + 1].prob)

\* every reading of the record is a finite number
AllFinite(p) == \A m \in Markers : p[m].k = "num"

RECURSIVE SumProbs(_, _)
\* the sum of the probabilities of a ranking from index i on
SumProbs(r, i) ==
    IF i > Len(r) THEN Zero ELSE FxAdd(PToFloat(r[i].prob), SumProbs(r, i + 1))

\* 1.0 as a result of math.exp
POne == PNum(0, One)

\* every probability of the ranking is a number in [0, 1]
InUnitInterval(r) ==
    \A i \in 1..Len(r) : r[i].prob.k \in {"zero", "num"} /\ ~PLess(POne, r[i].prob)

\* 1e-9
Tolerance == IntRatio(1, 1000 * 1000 * 1000).q

\* |x - 1.0| <= tol
NearOne(x, tol) == ~FxLess(FxAdd(One, tol), x) /\ ~FxLess(x, FxSub(One, tol))

\* C3: for a record with a finite reading for every signal marker, each
\* returned probability lies in [0, 1] and the probabilities sum to 1.0
\* within 1e-9.
C3_Normalized ==
    (pc = "done" /\ result.kind = "returned" /\ AllFinite(patient)) =>
        /\ InUnitInterval(result.ranked)
        /\ NearOne(SumProbs(result.ranked, 1), Tolerance)

\* the log-sum-exp of the scores of the call
Lse == _logsumexp(Values(scores)).val

\* from 2^24 on two neighbouring doubles are more than 2e-9 apart
CoarseFrom == 2 ^ 24

\* the spacing of the doubles at x
Spacing(x) == Carry(0, 0, 0, Quantum(Magnitude(x)))

\* x is 1.0 within 1e-9 when lse is below 2^24 in magnitude, and otherwise
\* within the spacing of the doubles at lse
WithinSpacing(x, lse) ==
    IF Magnitude(lse) < CoarseFrom THEN NearOne(x, Tolerance)
    ELSE NearOne(x, Spacing(lse))

\* where the sum leaves 1.0: each returned probability lies in [0, 1]; the
\* probabilities sum to 1.0 within 1e-9 when the log-sum-exp of the scores is
\* below 2^24 in magnitude, and otherwise within the spacing of the doubles
\* at the log-sum-exp, which math.exp(s - lse) carries into every probability.
SumWithinSpacing ==
    (pc = "done" /\ result.kind = "returned" /\ AllFinite(patient)) =>
        /\ InUnitInterval(result.ranked)
        /\ WithinSpacing(SumProbs(result.ranked, 1), Lse)

\* a call with a coarse log-sum-exp has returned
CoarseReturned ==
    /\ pc = "done"
    /\ result.kind = "returned"
    /\ AllFinite(patient)
    /\ Magnitude(Lse) >= CoarseFrom

AtMean(c) ==
    [m \in Markers |-> IF m = c.marker THEN Reading(c.mu) ELSE Reading(HEALTHY[m].mu)]

\* C5 as stated: for every class C, the record at C's signal mean with the
\* other markers at their healthy means ranks C first.
C5_Original ==
    \A i \in ClassIndex :
        (pc = "done" /\ patient = AtMean(CLASS_MARKERS[i])) =>
            /\ result.kind = "returned"
            /\ result.ranked[1].cls = CLASS_MARKERS[i].cls

\* the class that ranks first for AtMean(c)
Dominant(c) ==
    CASE c.cls = "Liver_Overall"      -> "Liver_Stage_II_III"
      [] c.cls = "Pancreatic_Overall" -> "Pancreatic_Stage_II_III"
      [] OTHER                        -> c.cls

\* C5 as amended: for every class C other than Liver_Overall and
\* Pancreatic_Overall, the record at C's signal mean with the other markers
\* at their healthy means ranks C first and predict_class returns C; for
\* those two classes the stage II-III class of the same marker is first and
\* C is second.
C5_Dominance ==
    \A i \in ClassIndex :
        (pc = "done" /\ patient = AtMean(CLASS_MARKERS[i])) =>
            /\ result.kind = "returned"
            /\ result.ranked[1].cls = Dominant(CLASS_MARKERS[i])
            /\ op = "predict_class" => result.pred = Dominant(CLASS_MARKERS[i])
            /\ Dominant(CLASS_MARKERS[i]) # CLASS_MARKERS[i].cls =>
                  result.ranked[2].cls = CLASS_MARKERS[i].cls

C5_Witness ==
    /\ pc = "done"
    /\ op = "predict_class"
    /\ patient = AtMean(CLASS_MARKERS[6])
    /\ result.pred = "Liver_Stage_IV"

\* the record holds a nan or an infinity
NonFinite(p) == \E m \in Markers : p[m].k \in {"nan", "inf"}

\* C6: a call with a record holding a non-finite reading fails, and no
\* returned ranking holds a nan probability.
C6_NonFiniteRejected ==
    /\ (pc = "done" /\ NonFinite(patient)) => result.kind = "raised"
    /\ (pc = "done" /\ result.kind = "returned") =>
          \A i \in 1..Len(result.ranked) : result.ranked[i].prob.k # "nan"

PredictAgrees(r) ==
    IF r.err # "none" THEN result = Raised(r.err)
    ELSE /\ result = Returned(r.val[1].cls, r.val)
         /\ Len(result.ranked) = Len(CLASS_MARKERS)
         /\ \A i \in ClassIndex :
               Cardinality({j \in 1..Len(result.ranked) :
                              result.ranked[j].cls = CLASS_MARKERS[i].cls}) = 1

\* C8: predict_class fails exactly when rank_classes fails, with the same
\* exception; otherwise it returns the class of the first entry of
\* rank_classes(patient) and that whole ranking, which holds every class of
\* the registry exactly once.
C8_PredictIsRank ==
    (pc = "done" /\ op = "predict_class") => PredictAgrees(rank_classes(patient))

C8_Witness ==
    /\ pc = "done"
    /\ op = "predict_class"
    /\ result.kind = "returned"
    /\ Len(result.ranked) = 10
    /\ result.pred = result.ranked[1].cls

\* the markers other than c's signal marker that the record has a reading
\* for, in the order of ALL_MARKERS
BaselineMarkers(c, p) ==
    SelectSeq(ALL_MARKERS, LAMBDA m : m # c.marker /\ HasReading(p, m))

RECURSIVE PlusBaselines(_, _, _, _)
\* acc plus the healthy-baseline terms of the markers ms[i], ms[i + 1], ...
PlusBaselines(p, ms, i, acc) ==
    IF i > Len(ms) THEN acc
    ELSE PlusBaselines(p, ms, i + 1,
            FAdd(acc, logpdf(ToFloat(p[ms[i]]), HEALTHY[ms[i]].mu, HEALTHY[ms[i]].var).val))

\* log-prior + signal term under c's parameters + the baseline terms of the
\* other markers that are present
ExpectedScore(c, p) ==
    PlusBaselines(p, BaselineMarkers(c, p), 1,
        FAdd(LOG_PRIOR(CLASS_MARKERS), logpdf(ToFloat(p[c.marker]), c.mu, c.var).val))

\* C9: every score rank_classes stores for a class C is the log-prior, plus
\* the signal term under C's parameters, plus one healthy-baseline term for
\* each other marker the record has a reading for, and nothing for an absent
\* marker or for C's own signal marker.
C9_ScoreComposition ==
    \A i \in 1..Len(scores) :
        /\ scores[i].cls = CLASS_MARKERS[i].cls
        /\ scores[i].score = ExpectedScore(CLASS_MARKERS[i], patient)

C9_Witness ==
    /\ Len(scores) >= 2
    /\ patient["CA19-9"] = Absent
    /\ patient["AFP"].k = "num"
    /\ patient["HE4"].k = "num"

\* the registry once the module is loaded
Loaded == [Shipped EXCEPT !.LOG_PRIOR = LOG_PRIOR(CLASS_MARKERS)]

\* C10: once loaded the registry never changes, whatever calls are made and
\* however they end, and a call does not change the record passed to it.
C10_Frame ==
    [][ /\ pc # "load" => (registry = Loaded /\ registry' = registry)
        /\ pc \in {"score", "predict"} => patient' = patient ]_vars

C10_Witness ==
    /\ pc = "done"
    /\ result.kind = "raised"
    /\ Len(scores) > 0
    /\ registry = Loaded

====
